---------------------------- MODULE Spec2Model ----------------------------
(***************************************************************************)
(* Model of the HTML Scraper API (src/app.py): the POST /scrape endpoint.  *)
(*                                                                         *)
(* Each in-flight request is a coroutine; its position is handlers[r].pc   *)
(* and its locals (request, browser, page, response, html_content, the     *)
(* exception in flight, the pending return value) are the other fields of  *)
(* handlers[r].  browsers is the set of browser processes of the host.     *)
(* Coroutines interleave at their awaits, so every action is one request's *)
(* step from one await to the next.                                        *)
(*                                                                         *)
(* What the libraries do is modelled at the call sites:                    *)
(*   - FastAPI decodes a JSON body before it resolves the dependencies,    *)
(*     resolves Depends(security) and Depends(verify_token) before it      *)
(*     validates the body against ScrapeRequest, and answers 422 itself.   *)
(*   - HTTPBearer() answers a request without credentials itself, with 403 *)
(*     or 401 depending on the FastAPI release (none is pinned).           *)
(*   - Playwright's TimeoutError derives from playwright's Error, which    *)
(*     derives from Exception; it is not asyncio.TimeoutError.             *)
(*   - Playwright takes a timeout of 0 as "no deadline".                   *)
(*   - browser.close() is taken to complete.                               *)
(***************************************************************************)
EXTENDS Integers, Sequences, FiniteSets, TLC

\* ------------------------------------------------------------------ bounds
NumRequests == 2
MaxSeconds == 1
MaxDom == 1

\* --------------------------------------------------------------- constants
DEFAULT_WAIT_TIME == 3
DEFAULT_TIMEOUT == 30
VALID_TOKEN == "your-secret-token-here"

Requests == 1..NumRequests
BrowserIds == 1..NumRequests

\* Optional[T]: None, or a value.
None == << >>
Some(x) == << x >>
Val(o) == o[1]

\* ------------------------------------------------------- inbound requests
\* A JSON value of the body: absent key, null, an integer, a string.
Absent == << "absent" >>
Null == << "null" >>
JInt(n) == << "int", n >>
JStr(s) == << "str", s >>

\* A URL string, by its parts: scheme, host, path.
GoodUrl == << "https", "example.com", "/" >>
BareUrl == << "https", "example.com", "" >>
BadUrl == << "", "not a url", "" >>
Selector == "#app"

\* The Authorization header's bearer credentials: none, a wrong one, the secret.
Tokens == { None, Some("wrong-token"), Some(VALID_TOKEN) }

Seconds == { JInt(n) : n \in -1..MaxSeconds }

JsonBodies ==
    [ json : {TRUE},
      url : { Absent, JStr(BadUrl), JStr(BareUrl), JStr(GoodUrl) },
      wait_for_selector : { Absent, Null, JStr(""), JStr(Selector) },
      wait_time : { Absent, Null, JStr("soon") } \cup Seconds,
      timeout : { Absent, Null, JStr("soon") } \cup Seconds ]

MalformedBody ==
    [ json |-> FALSE, url |-> Absent, wait_for_selector |-> Absent,
      wait_time |-> Absent, timeout |-> Absent ]

Bodies == JsonBodies \cup { MalformedBody }

\* The workload of the concurrent specification: one body of every kind.
ConcBodies ==
    { b \in Bodies :
        /\ b.wait_time = Absent
        /\ b.timeout = JInt(1)
        /\ \/ b.url = JStr(GoodUrl) /\ b.wait_for_selector = JStr(Selector)
           \/ b.url = JStr(BadUrl) /\ b.wait_for_selector = Absent }
    \cup { MalformedBody }

\* ScrapeRequest: pydantic's validation of a decoded body.
OptionalIntOk(j) == j \in { Absent, Null } \/ j[1] = "int"
OptionalStrOk(j) == j \in { Absent, Null } \/ j[1] = "str"
HttpUrlOk(j) == j[1] = "str" /\ j[2][1] \in { "http", "https" } /\ j[2][2] # ""

\* The URL as pydantic 2 keeps it: an empty path becomes "/".
Normalize(u) == << u[1], u[2], IF u[3] = "" THEN "/" ELSE u[3] >>

\* url: HttpUrl, as str(request.url) gives it back: pydantic 1 keeps the string
\* it was given, pydantic 2 the normalised URL (neither release is pinned).
HttpUrl(u) == { u, Normalize(u) }

ScrapeRequestValid(b) ==
    /\ b.json
    /\ HttpUrlOk(b.url)
    /\ OptionalStrOk(b.wait_for_selector)
    /\ OptionalIntOk(b.wait_time)
    /\ OptionalIntOk(b.timeout)

OptionalField(j, default) ==
    IF j = Absent THEN default
    ELSE IF j = Null THEN None
    ELSE Some(j[2])

ScrapeRequest(b, url) ==
    [ url |-> url,
      wait_for_selector |-> OptionalField(b.wait_for_selector, None),
      wait_time |-> OptionalField(b.wait_time, Some(DEFAULT_WAIT_TIME)),
      timeout |-> OptionalField(b.timeout, Some(DEFAULT_TIMEOUT)) ]


\* ------------------------------------------------------------- exceptions
\* The classes an exception is an instance of.
Bases(cls) ==
    CASE cls = "HTTPException" -> { "HTTPException", "Exception" }
      [] cls = "playwright.TimeoutError" ->
            { "playwright.TimeoutError", "playwright.Error", "Exception" }
      [] cls = "playwright.Error" -> { "playwright.Error", "Exception" }
      [] cls = "asyncio.TimeoutError" -> { "asyncio.TimeoutError", "Exception" }
      [] cls = "TypeError" -> { "TypeError", "Exception" }
      [] cls = "OverflowError" -> { "OverflowError", "Exception" }

IsInstance(e, base) == base \in Bases(e.cls)

HTTPException(status_code, detail, headers) ==
    [ cls |-> "HTTPException", status_code |-> Some(status_code),
      detail |-> detail, headers |-> headers ]

\* An exception of a library or of the interpreter: its message is its detail.
Error(cls, message) ==
    [ cls |-> cls, status_code |-> None, detail |-> message, headers |-> None ]

\* str(e): an HTTPException prints "<status_code>: <detail>".
Str(e) ==
    IF e.status_code # None
    THEN << Val(e.status_code), ": " >> \o e.detail
    ELSE e.detail

\* What an awaited call may raise besides what the model names: a Playwright call
\* its Error or a timeout of the event loop, asyncio.sleep an OverflowError (a
\* delay too large to add to the clock).
Faults(op) ==
    IF op = "sleep" THEN { "OverflowError" }
    ELSE { "playwright.Error", "asyncio.TimeoutError" }

Message(op) == << op, " failed" >>

\* ------------------------------------------------------------ responses
ScrapeResponse(html, url, status_code, success) ==
    [ html |-> html, url |-> url, status_code |-> status_code,
      success |-> success, error |-> None ]

\* FastAPI's answer to a returned ScrapeResponse.
JsonReply(body) ==
    [ status |-> 200, detail |-> None, headers |-> None, body |-> Some(body) ]

\* FastAPI's answer to an HTTPException leaving a dependency or the endpoint.
HttpReply(e) ==
    [ status |-> Val(e.status_code), detail |-> Some(e.detail),
      headers |-> e.headers, body |-> None ]

\* FastAPI's answer to a body it cannot decode or validate.
ValidationReply ==
    [ status |-> 422, detail |-> Some(<< "validation error" >>),
      headers |-> None, body |-> None ]

\* HTTPBearer's answer to a request without credentials.
NotAuthenticated == { 401, 403 }

Statuses == { 200, 404 }

\* <html> as page.content() serialises the current DOM.
Serialize(dom) == << "<html>", dom, "</html>" >>

\* ------------------------------------------------------------------ state
VARIABLES handlers, browsers

vars == << handlers, browsers >>

Idle ==
    [ pc |-> "idle", token |-> None, body |-> None, request |-> None,
      p |-> FALSE, browser |-> None, page |-> None, pending |-> None,
      response |-> None, html_content |-> None, exc |-> None, ret |-> None,
      reply |-> None, trace |-> << >>, failures |-> << >> ]

Init ==
    /\ handlers = [ r \in Requests |-> Idle ]
    /\ browsers = [ b \in BrowserIds |-> "unused" ]

Update(r, h) == handlers' = [ handlers EXCEPT ![r] = h ]

Done(h, reply) == [ h EXCEPT !.pc = "done", !.reply = Some(reply) ]

Called(h, op) == [ h EXCEPT !.trace = Append(@, op) ]

\* ----------------------------------------------- the request's way in
Receive(r, tokens, bodies) ==
    /\ handlers[r].pc = "idle"
    /\ \E t \in tokens, b \in bodies :
          Update(r, [ handlers[r] EXCEPT !.pc = "decode", !.token = t,
                                          !.body = Some(b) ])
    /\ UNCHANGED browsers

\* FastAPI reads the JSON body first: a body that is no JSON is answered 422.
decode_body(r) ==
    LET h == handlers[r] IN
    /\ h.pc = "decode"
    /\ Update(r, IF Val(h.body).json
                 THEN [ h EXCEPT !.pc = "security" ]
                 ELSE Done(h, ValidationReply))
    /\ UNCHANGED browsers

\* security = HTTPBearer(): no credentials, no call of verify_token.
security(r) ==
    LET h == handlers[r] IN
    /\ h.pc = "security"
    /\ IF h.token = None
       THEN \E st \in NotAuthenticated :
               Update(r, Done(h, HttpReply(
                   HTTPException(st, << "Not authenticated" >>, None))))
       ELSE Update(r, [ h EXCEPT !.pc = "verify_token" ])
    /\ UNCHANGED browsers

\* The comparison, were any non-empty token taken.
TokenMatchesAny(credentials) == credentials # ""

TokenMatches(credentials) == credentials = VALID_TOKEN

verify_token(r) ==
    LET h == handlers[r] IN
    /\ h.pc = "verify_token"
    /\ Update(r, IF ~TokenMatches(Val(h.token))
                 THEN Done(h, HttpReply(
                        HTTPException(401, << "Invalid authentication token" >>,
                                      Some(<< "WWW-Authenticate", "Bearer" >>))))
                 ELSE [ h EXCEPT !.pc = "validate" ])
    /\ UNCHANGED browsers

\* request: ScrapeRequest, validated after the dependencies are resolved.
validate_body(r) ==
    LET h == handlers[r] IN
    /\ h.pc = "validate"
    /\ IF ScrapeRequestValid(Val(h.body))
       THEN \E url \in HttpUrl(Val(h.body).url[2]) :
               Update(r, [ h EXCEPT !.pc = "enter_pw",
                                    !.request = Some(ScrapeRequest(Val(h.body), url)) ])
       ELSE Update(r, Done(h, ValidationReply))
    /\ UNCHANGED browsers

\* ------------------------------------------------- scrape_url: unwinding
\* Where an exception raised at `at` goes next: out of the inner try through its
\* finally (browser.close()), out of the `async with` through its exit, or, when
\* entering the `async with` failed, straight to the except clauses.
\* Unwind with a retry: a navigation that failed is started again.
UnwindRetry(at) ==
    IF at = "enter_pw" THEN "except"
    ELSE IF at = "launch" THEN "exit_pw"
    ELSE IF at = "navigating" THEN "goto"
    ELSE "close"

\* Unwind without the finally: the browser is closed on the way of a return only.
UnwindNoFinally(at) ==
    IF at = "enter_pw" THEN "except" ELSE "exit_pw"

Unwind(at) ==
    IF at = "enter_pw" THEN "except"
    ELSE IF at = "launch" THEN "exit_pw"
    ELSE "close"

\* The record of a failed call: where, after how many calls, why, with what.
Failure(h, e, cause) == [ at |-> h.pc, n |-> Len(h.trace), cause |-> cause, e |-> e ]

\* h after e is raised at h.pc; cause says what made the call fail.
Raise(h, e, cause) ==
    [ h EXCEPT !.pc = Unwind(h.pc), !.exc = Some(e), !.pending = None,
               !.failures = Append(@, Failure(h, e, cause)) ]

\* The awaited call `op` of h raises something unforeseen.
Fault(r, h, op) ==
    \E cls \in Faults(op) : Update(r, Raise(h, Error(cls, Message(op)), "fault"))

\* The browser behind h's reference is running.
Running(h) == h.browser # None /\ browsers[Val(h.browser)] = "open"

\* A page call on a browser that runs no more raises.
TargetClosed(r, h, op) ==
    Update(r, Raise(h, Error("playwright.Error", Message(op)), "closed"))

\* request.timeout * 1000, once request.timeout is known to be an int.
TimeoutMs(request) == Val(request.timeout) * 1000

\* Playwright arms a deadline unless the timeout is 0.
HasDeadline(request) == TimeoutMs(request) # 0

\* Playwright's TimeoutError of a call whose deadline expired.
DeadlineError(request) ==
    Error("playwright.TimeoutError", << "Timeout ", TimeoutMs(request), "ms exceeded." >>)

\* ----------------------------------------------------- scrape_url: steps
\* async with async_playwright() as p:
async_playwright_enter(r) ==
    LET h == handlers[r] IN
    /\ h.pc = "enter_pw"
    /\ \/ Update(r, [ h EXCEPT !.pc = "launch", !.p = TRUE ])
       \/ Fault(r, h, "async_playwright")
    /\ UNCHANGED browsers

\* A launch that hands out the first browser of the host, running or not.
ReusedBrowser == CHOOSE b \in BrowserIds : \A c \in BrowserIds : b <= c

\* The process a launch starts is a new one.
NewBrowser == CHOOSE b \in BrowserIds :
                 /\ browsers[b] = "unused"
                 /\ \A c \in BrowserIds : browsers[c] = "unused" => b <= c

\* browser = await p.chromium.launch(...)
launch(r) ==
    LET h == Called(handlers[r], "launch") IN
    /\ h.pc = "launch"
    /\ \/ /\ \E b \in BrowserIds : browsers[b] = "unused"
          /\ browsers' = [ browsers EXCEPT ![NewBrowser] = "open" ]
          /\ Update(r, [ h EXCEPT !.pc = "new_page", !.browser = Some(NewBrowser) ])
       \/ /\ Fault(r, h, "launch")
          /\ UNCHANGED browsers

\* page = await browser.new_page(user_agent=USER_AGENT)
new_page(r) ==
    LET h == Called(handlers[r], "new_page") IN
    /\ h.pc = "new_page"
    /\ IF Running(h)
       THEN \/ Update(r, [ h EXCEPT !.pc = "set_viewport", !.page = Some([ dom |-> 0 ]) ])
            \/ Fault(r, h, "new_page")
       ELSE TargetClosed(r, h, "new_page")
    /\ UNCHANGED browsers

\* await page.set_viewport_size({"width": 1920, "height": 1080})
set_viewport_size(r) ==
    LET h == Called(handlers[r], "set_viewport_size") IN
    /\ h.pc = "set_viewport"
    /\ IF Running(h)
       THEN \/ Update(r, [ h EXCEPT !.pc = "goto" ])
            \/ Fault(r, h, "set_viewport_size")
       ELSE TargetClosed(r, h, "set_viewport_size")
    /\ UNCHANGED browsers

\* What the target does with a navigation, and a page with a selector.
Targets == { "responds", "no_response", "never", "error" }
Appearances == { "appears", "never", "error" }

\* response = await page.goto(str(request.url), timeout=request.timeout * 1000,
\*                            wait_until="networkidle"): the call.
goto(r) ==
    LET h == Called(handlers[r], "goto")
        request == Val(h.request) IN
    /\ h.pc = "goto"
    /\ IF request.timeout = None
       THEN Update(r, Raise(h, Error("TypeError", << "NoneType * int" >>), "type"))
       ELSE IF Running(h)
       THEN \E t \in Targets :
               Update(r, [ h EXCEPT !.pc = "navigating", !.pending = Some(t) ])
       ELSE TargetClosed(r, h, "goto")
    /\ UNCHANGED browsers

\* The navigation ends with a response.
goto_response(r) ==
    LET h == handlers[r] IN
    /\ h.pc = "navigating" /\ h.pending = Some("responds")
    /\ \E st \in Statuses :
          Update(r, [ h EXCEPT !.pc = "check_response", !.pending = None,
                               !.response = Some([ status |-> st ]) ])
    /\ UNCHANGED browsers

\* The navigation ends without a response object: goto returns None.
goto_none(r) ==
    LET h == handlers[r] IN
    /\ h.pc = "navigating" /\ h.pending = Some("no_response")
    /\ Update(r, [ h EXCEPT !.pc = "check_response", !.pending = None,
                            !.response = None ])
    /\ UNCHANGED browsers

\* The navigation's deadline expires: Playwright raises its TimeoutError.
goto_deadline(r) ==
    LET h == handlers[r] IN
    /\ h.pc = "navigating" /\ h.pending = Some("never")
    /\ HasDeadline(Val(h.request))
    /\ Update(r, Raise(h, DeadlineError(Val(h.request)), "deadline"))
    /\ UNCHANGED browsers

\* The navigation fails.
goto_error(r) ==
    LET h == handlers[r] IN
    /\ h.pc = "navigating" /\ h.pending = Some("error")
    /\ Fault(r, h, "goto")
    /\ UNCHANGED browsers

\* if response is None: raise HTTPException(status_code=400, ...)
check_response(r) ==
    LET h == handlers[r] IN
    /\ h.pc = "check_response"
    /\ Update(r, IF h.response = None
                 THEN Raise(h, HTTPException(400, << "Failed to load the page" >>, None),
                            "no_response")
                 ELSE [ h EXCEPT !.pc = "selector" ])
    /\ UNCHANGED browsers

\* Python's truth of an Optional[str] and of an Optional[int].
TruthyStr(o) == o # None /\ Val(o) # ""
TruthyInt(o) == o # None /\ Val(o) # 0

\* The selector wait's handler, were it `except asyncio.TimeoutError`.
SelectorExceptNarrow(h, e, cause) ==
    IF IsInstance(e, "asyncio.TimeoutError")
    THEN [ h EXCEPT !.pc = "sleep", !.pending = None,
                    !.failures = Append(@, Failure(h, e, cause)) ]
    ELSE Raise(h, e, cause)

\* except Exception as e: logger.warning(...): the selector wait's own handler.
SelectorExcept(h, e, cause) ==
    IF IsInstance(e, "Exception")
    THEN [ h EXCEPT !.pc = "sleep", !.pending = None,
                    !.failures = Append(@, Failure(h, e, cause)) ]
    ELSE Raise(h, e, cause)

\* if request.wait_for_selector: await page.wait_for_selector(
\*     request.wait_for_selector, timeout=request.timeout * 1000): the call.
wait_for_selector(r) ==
    LET h == handlers[r] IN
    /\ h.pc = "selector"
    /\ IF ~TruthyStr(Val(h.request).wait_for_selector)
       THEN Update(r, [ h EXCEPT !.pc = "sleep" ])
       ELSE IF Running(h)
       THEN \E a \in Appearances :
               Update(r, [ Called(h, "wait_for_selector") EXCEPT
                             !.pc = "waiting_selector", !.pending = Some(a) ])
       ELSE Update(r, SelectorExcept(
                        [ Called(h, "wait_for_selector") EXCEPT !.pc = "waiting_selector" ],
                        Error("playwright.Error", Message("wait_for_selector")), "closed"))
    /\ UNCHANGED browsers

\* The selector appears.
selector_found(r) ==
    LET h == handlers[r] IN
    /\ h.pc = "waiting_selector" /\ h.pending = Some("appears")
    /\ Update(r, [ h EXCEPT !.pc = "sleep", !.pending = None ])
    /\ UNCHANGED browsers

\* The selector wait's deadline expires: Playwright raises its TimeoutError.
selector_deadline(r) ==
    LET h == handlers[r] IN
    /\ h.pc = "waiting_selector" /\ h.pending = Some("never")
    /\ HasDeadline(Val(h.request))
    /\ Update(r, SelectorExcept(h, DeadlineError(Val(h.request)), "deadline"))
    /\ UNCHANGED browsers

\* The selector wait fails.
selector_error(r) ==
    LET h == handlers[r] IN
    /\ h.pc = "waiting_selector" /\ h.pending = Some("error")
    /\ \E cls \in Faults("wait_for_selector") :
          Update(r, SelectorExcept(h, Error(cls, Message("wait_for_selector")), "fault"))
    /\ UNCHANGED browsers

\* The test, were it `if request.wait_time is not None`.
SleepsNotNone(request) == request.wait_time # None

\* if request.wait_time and request.wait_time > 0:
Sleeps(request) == TruthyInt(request.wait_time) /\ Val(request.wait_time) > 0

\* await asyncio.sleep(request.wait_time): the call.
sleep(r) ==
    LET h == handlers[r] IN
    /\ h.pc = "sleep"
    /\ Update(r, IF Sleeps(Val(h.request))
                 THEN [ Called(h, "sleep") EXCEPT !.pc = "sleeping" ]
                 ELSE [ h EXCEPT !.pc = "content" ])
    /\ UNCHANGED browsers

\* The sleep ends, or is interrupted.
sleep_done(r) ==
    LET h == handlers[r] IN
    /\ h.pc = "sleeping"
    /\ \/ Update(r, [ h EXCEPT !.pc = "content" ])
       \/ Fault(r, h, "sleep")
    /\ UNCHANGED browsers

\* The page's scripts change the DOM while the coroutine waits.
page_script(r) ==
    LET h == handlers[r] IN
    /\ h.pc \in { "navigating", "waiting_selector", "sleeping" }
    /\ Val(h.page).dom < MaxDom
    /\ Update(r, [ h EXCEPT !.page = Some([ dom |-> Val(h.page).dom + 1 ]) ])
    /\ UNCHANGED browsers

\* html_content = await page.content()
content(r) ==
    LET h == Called(handlers[r], "content") IN
    /\ h.pc = "content"
    /\ IF Running(h)
       THEN \/ Update(r, [ h EXCEPT !.pc = "return",
                                    !.html_content = Some(Serialize(Val(h.page).dom)) ])
            \/ Fault(r, h, "content")
       ELSE TargetClosed(r, h, "content")
    /\ UNCHANGED browsers

\* return ScrapeResponse(html=html_content, url=str(request.url),
\*                       status_code=response.status, success=True)
ReturnedStatus200(h) ==
    ScrapeResponse(Val(h.html_content), Val(h.request).url, 200, TRUE)

Returned(h) ==
    ScrapeResponse(Val(h.html_content), Val(h.request).url,
                   Val(h.response).status, TRUE)

return_response(r) ==
    LET h == handlers[r] IN
    /\ h.pc = "return"
    /\ Update(r, [ h EXCEPT !.pc = "close", !.ret = Some(Returned(h)) ])
    /\ UNCHANGED browsers

\* The browsers a close of h's browser stops.
Closes(h) == { Val(h.browser) }

\* finally: await browser.close()
close(r) ==
    LET h == Called(handlers[r], "close") IN
    /\ h.pc = "close"
    /\ browsers' = [ b \in BrowserIds |->
                       IF b \in Closes(h) THEN "closed" ELSE browsers[b] ]
    /\ Update(r, [ h EXCEPT !.pc = "exit_pw" ])

\* The end of the `async with`: the exception goes on to the except clauses, the
\* return value to FastAPI.
async_playwright_exit(r) ==
    LET h == handlers[r] IN
    /\ h.pc = "exit_pw"
    /\ Update(r, IF h.exc # None
                 THEN [ h EXCEPT !.pc = "except", !.p = FALSE ]
                 ELSE Done([ h EXCEPT !.p = FALSE ], JsonReply(Val(h.ret))))
    /\ UNCHANGED browsers

\* f"{request.timeout}"
Format(o) == IF o = None THEN "None" ELSE Val(o)

\* The except clauses, were the 500's detail a fixed text.
ExceptOpaque(request, e) ==
    IF IsInstance(e, "asyncio.TimeoutError")
    THEN HTTPException(408, << "Request timeout after ", Format(request.timeout),
                               " seconds" >>, None)
    ELSE HTTPException(500, << "Scraping failed" >>, None)

\* except asyncio.TimeoutError: ... 408; except Exception as e: ... 500
Except(request, e) ==
    IF IsInstance(e, "asyncio.TimeoutError")
    THEN HTTPException(408, << "Request timeout after ", Format(request.timeout),
                               " seconds" >>, None)
    ELSE HTTPException(500, << "Scraping failed: " >> \o Str(e), None)

except(r) ==
    LET h == handlers[r] IN
    /\ h.pc = "except"
    /\ Update(r, Done([ h EXCEPT !.exc = None ],
                      HttpReply(Except(Val(h.request), Val(h.exc)))))
    /\ UNCHANGED browsers

\* ------------------------------------------------------- specifications
\* The steps of the request's own coroutine.
Advance(r) ==
    \/ decode_body(r) \/ security(r) \/ verify_token(r) \/ validate_body(r)
    \/ async_playwright_enter(r) \/ launch(r) \/ new_page(r)
    \/ set_viewport_size(r) \/ goto(r) \/ goto_response(r) \/ goto_none(r)
    \/ goto_deadline(r) \/ goto_error(r) \/ check_response(r)
    \/ wait_for_selector(r) \/ selector_found(r) \/ selector_deadline(r)
    \/ selector_error(r) \/ sleep(r) \/ sleep_done(r)
    \/ content(r) \/ return_response(r) \/ close(r)
    \/ async_playwright_exit(r) \/ except(r)

Step(r) == Advance(r) \/ page_script(r)

\* One client, one request at a time, every token and body.
Next == \E r \in { 1 } : Receive(r, Tokens, Bodies) \/ Step(r)

Spec == Init /\ [][Next]_vars

\* NumRequests requests in flight, interleaved at their awaits.
NextConc == \E r \in Requests : Receive(r, Tokens, ConcBodies) \/ Step(r)

SpecConc == Init /\ [][NextConc]_vars

\* Spec with the event loop's scheduling: a coroutine that can take a step takes
\* it, and a deadline that is armed expires. (Nothing obliges a client to send a
\* request, or a page's scripts to run.)
SpecLive == Spec /\ \A r \in { 1 } : WF_vars(Advance(r))

\* ================================================================ claims
Count(seq, x) == Cardinality({ i \in DOMAIN seq : seq[i] = x })

Answered(h) == h.pc = "done" /\ h.reply # None

Status(h) == Val(h.reply).status

\* The failures of h that its selector wait's handler did not swallow.
Fatal(h) == { i \in DOMAIN h.failures : h.failures[i].at # "waiting_selector" }

\* h failed with cause `cause` at `at`, fatally.
FailedAt(h, at, cause) ==
    \E i \in Fatal(h) : h.failures[i].at = at /\ h.failures[i].cause = cause

\* C1: a browser a request launched is closed exactly once, by the time the
\* request is answered, on every way out (return, Navigation Failure, timeout,
\* any exception of page creation, viewport, navigation, sleep or extraction);
\* no request closes more than once, and none closes without a launch.
C1_BrowserClosedOnce ==
    \A r \in Requests :
        LET h == handlers[r] IN
        /\ Count(h.trace, "launch") <= 1
        /\ Count(h.trace, "close") <= 1
        /\ h.browser = None => Count(h.trace, "close") = 0
        /\ Answered(h) /\ h.browser # None =>
              /\ Count(h.trace, "close") = 1
              /\ browsers[Val(h.browser)] = "closed"
        /\ Cardinality({ b \in BrowserIds : browsers[b] # "unused" })
              = Cardinality({ q \in Requests : handlers[q].browser # None })

\* C1's case: a request answered after its content extraction raised, with the
\* browser it launched closed.
C1_Witness ==
    \E r \in Requests :
        LET h == handlers[r] IN
        /\ Answered(h) /\ Status(h) = 500
        /\ FailedAt(h, "content", "fault")
        /\ browsers[Val(h.browser)] = "closed"

\* C2: a navigation that ends without a response object is answered 400.
C2_NoResponseIs400 ==
    \A r \in Requests :
        LET h == handlers[r] IN
        Answered(h) /\ FailedAt(h, "check_response", "no_response")
            => Status(h) = 400

\* C3: a navigation whose deadline expires is answered 408, with a detail that
\* names the timeout.
C3_NavigationDeadlineIs408 ==
    \A r \in Requests :
        LET h == handlers[r] IN
        Answered(h) /\ FailedAt(h, "navigating", "deadline")
            => /\ Status(h) = 408
               /\ Val(h.reply).detail = Some(<< "Request timeout after ",
                                                Format(Val(h.request).timeout),
                                                " seconds" >>)

\* C4: a request whose token is missing or is not the secret is answered 401,
\* whatever its body.
C4_BadTokenIs401 ==
    \A r \in Requests :
        LET h == handlers[r] IN
        Answered(h) /\ h.token # Some(VALID_TOKEN) => Status(h) = 401

\* The selector wait of h failed (and was swallowed).
SelectorFailed(h) == \E i \in DOMAIN h.failures : h.failures[i].at = "waiting_selector"

\* The reply is a 200 carrying a ScrapeResponse of these fields.
Succeeded(h, html, url, status_code) ==
    /\ Status(h) = 200
    /\ Val(h.reply).body # None
    /\ Val(h.reply).detail = None
    /\ Val(Val(h.reply).body) = ScrapeResponse(html, url, status_code, TRUE)

Isolated ==
    \A r \in Requests :
        handlers'[r] # handlers[r] =>
            \A q \in Requests \ { r } :
                /\ handlers'[q] = handlers[q]
                /\ handlers[q].browser # None =>
                      browsers'[Val(handlers[q].browser)]
                          = browsers[Val(handlers[q].browser)]

\* No two requests refer to the same browser, and a request's browser runs until
\* that request closes it.
Owned ==
    \A r \in Requests :
        LET h == handlers[r] IN
        h.browser # None =>
            /\ \A q \in Requests \ { r } : handlers[q].browser # h.browser
            /\ (browsers[Val(h.browser)] = "open") = (Count(h.trace, "close") = 0)
            /\ (browsers[Val(h.browser)] = "closed") = (Count(h.trace, "close") = 1)

\* C7: with requests interleaved at their awaits, every browser belongs to one
\* request, is used and closed by that request only, and a step of one request (a
\* timeout or failure among them) changes no other request's state or reply.
C7_Isolation == [][Isolated /\ Owned']_vars

\* C7's case: a request answered after its navigation timed out, while another
\* is asleep with its own browser running.
C7_Witness ==
    \E r, q \in Requests :
        /\ r # q
        /\ Answered(handlers[r])
        /\ FailedAt(handlers[r], "navigating", "deadline")
        /\ handlers[q].pc = "sleeping"
        /\ Running(handlers[q])
        /\ browsers[Val(handlers[r].browser)] = "closed"

\* C8: a failure of the session that is neither a timeout nor the Navigation
\* Failure is answered 500, with the failure's message in the detail.
C8_OtherFailuresAre500 ==
    \A r \in Requests :
        LET h == handlers[r] IN
        Answered(h) =>
            \A i \in Fatal(h) :
                LET f == h.failures[i] IN
                /\ f.cause \in { "fault", "type", "closed" }
                /\ f.e.cls \notin { "asyncio.TimeoutError", "playwright.TimeoutError" }
                => /\ Status(h) = 500
                   /\ Val(h.reply).detail = Some(<< "Scraping failed: " >> \o f.e.detail)

\* C8's case: a launch that raised, answered 500.
C8_Witness ==
    \E r \in Requests :
        LET h == handlers[r] IN
        /\ Answered(h) /\ Status(h) = 500
        /\ FailedAt(h, "launch", "fault")
        /\ h.failures[1].e.cls = "playwright.Error"

\* The calls a request makes of its session.
Calls == { "launch", "new_page", "set_viewport_size", "goto",
           "wait_for_selector", "sleep", "content", "close" }

\* The calls h made after its failure f.
After(h, f) == { h.trace[j] : j \in { k \in DOMAIN h.trace : k > f.n } }

\* C9 as stated: every call is made at most once, and the first failed call
\* ends the request: no launch or navigation follows, and it decides the reply.
C9_FirstFailureFinal ==
    \A r \in Requests :
        LET h == handlers[r] IN
        /\ \A c \in Calls : Count(h.trace, c) <= 1
        /\ h.failures # << >> =>
              /\ After(h, h.failures[1]) \cap { "launch", "goto" } = { }
              /\ Answered(h) =>
                    Val(h.reply) = HttpReply(Except(Val(h.request), h.failures[1].e))

\* C9, amended: every call is made at most once; no launch or navigation follows
\* a failed call; a failure other than the selector wait's is the request's only
\* such failure, is followed by nothing but the close, and decides the reply. (A
\* failed selector wait is swallowed: what follows it decides the reply.)
C9_NoRetries ==
    \A r \in Requests :
        LET h == handlers[r] IN
        /\ \A c \in Calls : Count(h.trace, c) <= 1
        /\ \A i \in DOMAIN h.failures :
              After(h, h.failures[i]) \cap { "launch", "goto" } = { }
        /\ Cardinality(Fatal(h)) <= 1
        /\ \A i \in Fatal(h) :
              /\ After(h, h.failures[i]) \subseteq { "close" }
              /\ Answered(h) =>
                    Val(h.reply) = HttpReply(Except(Val(h.request), h.failures[i].e))

\* C9's case: a navigation that failed, followed by the close alone.
C9_Witness ==
    \E r \in Requests :
        LET h == handlers[r] IN
        /\ Answered(h)
        /\ FailedAt(h, "navigating", "fault")
        /\ h.trace = << "launch", "new_page", "set_viewport_size", "goto", "close" >>

\* C10: a request for which a browser is launched has a positive integer timeout
\* and a non-negative integer wait_time.
C10_DriverInputsValidated ==
    \A r \in Requests :
        LET h == handlers[r] IN
        Count(h.trace, "launch") > 0 =>
            /\ Val(h.request).timeout # None
            /\ Val(Val(h.request).timeout) > 0
            /\ Val(h.request).wait_time # None
            /\ Val(Val(h.request).wait_time) >= 0

\* C11: every request that passed the token check and the schema is eventually
\* answered, with the browser it launched closed, whatever timeout the schema
\* let through, even if the target never responds and the selector never appears.
C11_NeverHangs ==
    \A r \in Requests :
        handlers[r].pc = "enter_pw" ~>
            /\ Answered(handlers[r])
            /\ handlers[r].browser # None =>
                  browsers[Val(handlers[r].browser)] = "closed"

\* The request is in, or has been in, the Browser Session Driver.
InSession(h) ==
    \/ h.pc \notin { "idle", "decode", "security", "verify_token", "validate", "done" }
    \/ h.p \/ h.trace # << >> \/ h.browser # None \/ h.request # None

\* C12: the token check comes first: a request is in the session (playwright
\* started, a browser launched, a navigation made) only with the configured
\* secret as its token, and a request with another token, or none, makes no call.
C12_GateBeforeDriver ==
    \A r \in Requests :
        LET h == handlers[r] IN
        /\ InSession(h) => h.token = Some(VALID_TOKEN)
        /\ h.token # Some(VALID_TOKEN) =>
              /\ h.trace = << >>
              /\ \A b \in BrowserIds : browsers[b] # "unused" =>
                    \E q \in Requests \ { r } : handlers[q].browser = Some(b)

\* C12's case: a browser launched and a navigation made, for a request that
\* carries the secret.
C12_Witness ==
    \E r \in Requests :
        LET h == handlers[r] IN
        /\ h.token = Some(VALID_TOKEN)
        /\ Count(h.trace, "launch") = 1
        /\ Count(h.trace, "goto") = 1
        /\ Running(h)

\* The selector waits of h that timed out.
SelectorTimeouts(h) ==
    { i \in DOMAIN h.failures :
        h.failures[i].at = "waiting_selector" /\ h.failures[i].cause = "deadline" }

\* C13 as stated: a selector wait that exceeds its budget fails the request,
\* which is answered 408.
C13_SelectorTimeoutIs408 ==
    \A r \in Requests :
        LET h == handlers[r] IN
        Answered(h) /\ SelectorTimeouts(h) # { } => Status(h) = 408

\* C13, amended: a selector wait that exceeds its budget aborts that wait only:
\* its TimeoutError is caught where it is raised, is never the exception in
\* flight, the request goes on to the sleep or the extraction, and a 408, if the
\* request gets one, is that of a later asyncio.TimeoutError.
C13_SelectorTimeoutSwallowed ==
    \A r \in Requests :
        LET h == handlers[r] IN
        \A i \in SelectorTimeouts(h) :
            /\ h.exc # Some(h.failures[i].e)
            /\ h.pc \notin { "waiting_selector", "selector" }
            /\ Answered(h) =>
                  /\ After(h, h.failures[i]) \cap { "sleep", "content" } # { }
                  /\ Status(h) = 408 =>
                        \E j \in Fatal(h) : h.failures[j].e.cls = "asyncio.TimeoutError"
                  /\ Fatal(h) = { } => Status(h) = 200

\* C13's case: a selector wait that timed out, then the sleep and the
\* extraction, in a request that is answered.
C13_Witness ==
    \E r \in Requests :
        LET h == handlers[r] IN
        /\ Answered(h)
        /\ SelectorTimeouts(h) = { 1 }
        /\ After(h, h.failures[1]) = { "sleep", "content", "close" }

\* The place of call c in h's trace, 0 if it was not made.
At(h, c) ==
    IF Count(h.trace, c) = 0 THEN 0
    ELSE CHOOSE i \in DOMAIN h.trace : h.trace[i] = c

\* If both calls were made, a was made first.
Precedes(h, a, b) == At(h, a) # 0 /\ At(h, b) # 0 => At(h, a) < At(h, b)

\* C14: in a request that got a navigation response, the selector wait is made
\* only for a non-empty selector and before the sleep; the sleep is made if and
\* only if wait_time > 0, whatever became of the selector wait; the extraction
\* comes after the sleep and before the close.
C14_StepOrder ==
    \A r \in Requests :
        LET h == handlers[r]
            q == Val(h.request)
            made(c) == Count(h.trace, c) > 0
        IN  h.response # None =>
            /\ made("wait_for_selector") =>
                  q.wait_for_selector # None /\ Val(q.wait_for_selector) # ""
            /\ made("sleep") => q.wait_time # None /\ Val(q.wait_time) > 0
            /\ made("sleep") \/ made("content") =>
                  made("wait_for_selector")
                      = (q.wait_for_selector # None /\ Val(q.wait_for_selector) # "")
            /\ made("content") =>
                  made("sleep") = (q.wait_time # None /\ Val(q.wait_time) > 0)
            /\ Precedes(h, "goto", "wait_for_selector")
            /\ Precedes(h, "wait_for_selector", "sleep")
            /\ Precedes(h, "wait_for_selector", "content")
            /\ Precedes(h, "sleep", "content")
            /\ Precedes(h, "content", "close")
            /\ Precedes(h, "sleep", "close")
            /\ Answered(h) /\ Status(h) = 200 => made("content")

\* C14's case: a failed selector wait, then the sleep, the extraction and the
\* close, in that order.
C14_Witness ==
    \E r \in Requests :
        LET h == handlers[r] IN
        /\ Answered(h) /\ SelectorFailed(h)
        /\ h.trace = << "launch", "new_page", "set_viewport_size", "goto",
                        "wait_for_selector", "sleep", "content", "close" >>

\* C15: a request that is answered gets either a 200 with a ScrapeResponse whose
\* success is true and whose error is null, or one of 400, 401, 408, 422, 500
\* with a detail and no ScrapeResponse.
C15_OutcomeShape ==
    \A r \in Requests :
        LET h == handlers[r] IN
        Answered(h) =>
            \/ /\ Status(h) = 200
               /\ Val(h.reply).detail = None
               /\ Val(h.reply).body # None
               /\ Val(Val(h.reply).body).success = TRUE
               /\ Val(Val(h.reply).body).error = None
            \/ /\ Status(h) \in { 400, 401, 408, 422, 500 }
               /\ Val(h.reply).detail # None
               /\ Val(h.reply).body = None

=============================================================================
